---- MODULE Spec2Model ----
(***************************************************************************)
(* Navigation state machine of the list viewer in src/data.py (class       *)
(* Screen): the viewport (top, bottom, max_lines, page), the cursor        *)
(* (current), the item list with its filter backup, and the selection      *)
(* marker, driven by the key dispatch loop of Screen.input_stream.         *)
(***************************************************************************)
EXTENDS Integers, Sequences, FiniteSets, TLC

\* ---------------------------------------------------------------- bounds
\* longest list and tallest window of the navigation-only specifications
MaxLen == 10
MaxCap == 7
\* how far below 0 the cursor is followed (scroll up has no lower guard on
\* current while top > 0, so current is unbounded below)
MaxUnder == 2
\* longest list and tallest window of the specification with every key
MaxItems == 4
MaxRows == 2

\* ------------------------------------------------------------- constants
UP == -1
DOWN == 1
\* self.item value meaning "no selection"
NoItem == -1

\* self.backup is None / self.backup is a list
None == <<>>
Some(l) == <<l>>

\* record texts (sequences of characters) and filter strings the user types
Texts == { <<"a", "x">>, <<"b">> }
Searches == { <<>>, <<"x">>, <<"b">> }

RECURSIVE SeqsUpTo(_, _)
SeqsUpTo(S, n) ==
    IF n = 0 THEN { <<>> }
    ELSE LET shorter == SeqsUpTo(S, n - 1)
         IN  shorter \cup { Append(s, x) : s \in { t \in shorter : Len(t) = n - 1 }, x \in S }

\* lists handed to Screen(lines) by main()
NavLists == { [i \in 1..n |-> <<"b">>] : n \in 0..MaxLen }
AllLists == SeqsUpTo(Texts, MaxItems)

VARIABLES
    lines,      \* the list main() loaded and passed to Screen
    items,      \* self.items
    backup,     \* self.backup
    item,       \* self.item
    max_lines,  \* self.max_lines
    top,        \* self.top
    bottom,     \* self.bottom
    current,    \* self.current
    page,       \* self.page
    ch,         \* last key read by input_stream
    search,     \* last string returned by get_input
    pre,        \* items/backup/bottom before the last "f" key, kept over an "r" that follows it directly
    error       \* exception raised by Screen(lines), "none" when it returned

vars == <<lines, items, backup, item, max_lines, top, bottom, current, page, ch, search, pre, error>>

Min(a, b) == IF a < b THEN a ELSE b
Max(a, b) == IF a > b THEN a ELSE b

\* ---------------------------------------------------------- construction
\* Screen.__init__ for a list l and a terminal of c rows
Construct(l, c) ==
    /\ lines = l
    /\ items = l
    /\ backup = None
    /\ item = NoItem
    /\ max_lines = c
    /\ top = 0
    /\ bottom = Len(l)
    /\ current = 0
    /\ page = Len(l) \div c
    /\ ch = "none"
    /\ search = <<>>
    /\ pre = None
    /\ error = "none"

\* Screen.__init__ with curses.LINES = c unchecked: with c = 0 every attribute
\* up to self.current is assigned and `self.bottom // self.max_lines` raises
\* ZeroDivisionError, so self.page is never assigned and no Screen is returned
ConstructOrRaise(l, c) ==
    IF c = 0
    THEN /\ lines = l
         /\ items = l
         /\ backup = None
         /\ item = NoItem
         /\ max_lines = c
         /\ top = 0
         /\ bottom = Len(l)
         /\ current = 0
         /\ page = 0
         /\ ch = "none"
         /\ search = <<>>
         /\ pre = None
         /\ error = "ZeroDivisionError"
    ELSE Construct(l, c)

InitNav == \E l \in NavLists, c \in 1..MaxCap : Construct(l, c)
Init == \E l \in AllLists, c \in 1..MaxRows : Construct(l, c)
\* construction on a terminal that reports any number of rows from 0 up
InitTerminal == \E l \in NavLists, c \in 0..MaxCap : ConstructOrRaise(l, c)

\* ----------------------------------------------------------------- scroll
\* scroll with the window allowed one row past the end of the list
scroll_past_end(direction) ==
    LET next_line == current + direction IN
    IF direction = UP /\ (top > 0 /\ current = 0)
    THEN top' = top + direction /\ current' = current
    ELSE IF direction = DOWN /\ next_line = max_lines /\ top + max_lines <= bottom
    THEN top' = top + direction /\ current' = current
    ELSE IF direction = UP /\ (top > 0 \/ current > 0)
    THEN current' = next_line /\ top' = top
    ELSE IF direction = DOWN /\ next_line < max_lines /\ top + next_line < bottom
    THEN current' = next_line /\ top' = top
    ELSE top' = top /\ current' = current

\* scroll whose upward move is not guarded at the start of the list
scroll_up_unguarded(direction) ==
    LET next_line == current + direction IN
    IF direction = UP /\ (top > 0 /\ current = 0)
    THEN top' = top + direction /\ current' = current
    ELSE IF direction = DOWN /\ next_line = max_lines /\ top + max_lines < bottom
    THEN top' = top + direction /\ current' = current
    ELSE IF direction = UP
    THEN current' = next_line /\ top' = top
    ELSE IF direction = DOWN /\ next_line < max_lines /\ top + next_line < bottom
    THEN current' = next_line /\ top' = top
    ELSE top' = top /\ current' = current

\* scroll whose window-leads branches also move the cursor
scroll_moves_both(direction) ==
    LET next_line == current + direction IN
    IF direction = UP /\ (top > 0 /\ current = 0)
    THEN top' = top + direction /\ current' = next_line
    ELSE IF direction = DOWN /\ next_line = max_lines /\ top + max_lines < bottom
    THEN top' = top + direction /\ current' = next_line
    ELSE IF direction = UP /\ (top > 0 \/ current > 0)
    THEN current' = next_line /\ top' = top
    ELSE IF direction = DOWN /\ next_line < max_lines /\ top + next_line < bottom
    THEN current' = next_line /\ top' = top
    ELSE top' = top /\ current' = current

scroll(direction) ==
    LET next_line == current + direction IN
    IF direction = UP /\ (top > 0 /\ current = 0)
    THEN top' = top + direction /\ current' = current
    ELSE IF direction = DOWN /\ next_line = max_lines /\ top + max_lines < bottom
    THEN top' = top + direction /\ current' = current
    ELSE IF direction = UP /\ (top > 0 \/ current > 0)
    THEN current' = next_line /\ top' = top
    ELSE IF direction = DOWN /\ next_line < max_lines /\ top + next_line < bottom
    THEN current' = next_line /\ top' = top
    ELSE top' = top /\ current' = current

\* ----------------------------------------------------------------- paging
paging(direction) ==
    LET current_page == (top + current) \div max_lines
        next_page == current_page + direction
        clamped == IF next_page = page
                   THEN Min(current, (bottom % max_lines) - 1)
                   ELSE current
    IN  /\ current' = clamped
        /\ IF direction = UP /\ current_page > 0
           THEN top' = Max(0, top - max_lines)
           ELSE IF direction = DOWN /\ current_page < page
           THEN top' = top + max_lines
           ELSE top' = top

\* ----------------------------------------------------------------- filter
\* Python's `search in item` on strings
Contains(s, it) ==
    \E i \in 1..(Len(it) - Len(s) + 1) : SubSeq(it, i, i + Len(s) - 1) = s

\* the loop `for item in self.backup: if search in item: self.items.append(item)`
Filtered(l, s) == SelectSeq(l, LAMBDA it : Contains(s, it))

\* ---------------------------------------------------------------- display
\* self.items[self.top:self.top + self.max_lines]
visible == SubSeq(items, top + 1, Min(Len(items), top + max_lines))

\* detail view that looks the record up by the stored marker
display_by_marker ==
    IF item # NoItem /\ 0 <= item /\ item < Len(visible)
    THEN top + item
    ELSE NoItem

\* index in self.items of the record whose fields display() draws in the detail
\* view (the row of the visible slice with idx == self.current), NoItem when
\* it draws the list or no row of the slice matches
display ==
    IF item # NoItem /\ 0 <= current /\ current < Len(visible)
    THEN top + current
    ELSE NoItem

\* ------------------------------------------------ input_stream, per key
Nav == <<top, current>>
Lists == <<items, backup>>
Fixed == <<lines, max_lines, bottom, page, error>>
\* the attributes of the Screen object
screen == <<items, backup, item, max_lines, top, bottom, current, page>>

\* current stays within the followed range
Followed == current' >= 0 - MaxUnder

KeyUp ==
    /\ ch' = "KEY_UP"
    /\ scroll(UP)
    /\ Followed
    /\ pre' = None
    /\ UNCHANGED <<Lists, Fixed, item, search>>

KeyDown ==
    /\ ch' = "KEY_DOWN"
    /\ scroll(DOWN)
    /\ pre' = None
    /\ UNCHANGED <<Lists, Fixed, item, search>>

KeyLeft ==
    /\ ch' = "KEY_LEFT"
    /\ paging(UP)
    /\ pre' = None
    /\ UNCHANGED <<Lists, Fixed, item, search>>

KeyRight ==
    /\ ch' = "KEY_RIGHT"
    /\ paging(DOWN)
    /\ pre' = None
    /\ UNCHANGED <<Lists, Fixed, item, search>>

\* restore that clears the backup without putting it back
KeyRestoreDropsBackup ==
    /\ ch' = "r"
    /\ IF backup # None
       THEN items' = items /\ backup' = None
       ELSE UNCHANGED Lists
    /\ pre' = IF ch = "f" THEN pre ELSE None
    /\ UNCHANGED <<Nav, Fixed, item, search>>

\* ch == 114
KeyRestore ==
    /\ ch' = "r"
    /\ IF backup # None
       THEN items' = backup[1] /\ backup' = None
       ELSE UNCHANGED Lists
    /\ pre' = IF ch = "f" THEN pre ELSE None
    /\ UNCHANGED <<Nav, Fixed, item, search>>

\* filter that treats an empty string as "no filter"
KeyFilterSkipsEmpty ==
    \E s \in Searches :
        /\ ch' = "f"
        /\ search' = s
        /\ IF s = <<>>
           THEN UNCHANGED Lists
           ELSE backup' = Some(items) /\ items' = Filtered(items, s)
        /\ pre' = Some([items |-> items, backup |-> backup, bottom |-> bottom])
        /\ UNCHANGED <<Nav, Fixed, item>>

\* ch == 102
KeyFilter ==
    \E s \in Searches :
        /\ ch' = "f"
        /\ search' = s
        /\ backup' = Some(items)
        /\ items' = Filtered(items, s)
        /\ pre' = Some([items |-> items, backup |-> backup, bottom |-> bottom])
        /\ UNCHANGED <<Nav, Fixed, item>>

\* select that stores the absolute index
KeyEnterAbsolute ==
    /\ ch' = "ENTER"
    /\ item' = top + current
    /\ pre' = None
    /\ UNCHANGED <<Nav, Lists, Fixed, search>>

\* ch == curses.KEY_ENTER or ch == 10 or ch == 13
KeyEnter ==
    /\ ch' = "ENTER"
    /\ item' = current
    /\ pre' = None
    /\ UNCHANGED <<Nav, Lists, Fixed, search>>

\* cancel that also sends the cursor back to the first row
KeyEscResetsCursor ==
    /\ ch' = "ESC"
    /\ item' = NoItem
    /\ current' = 0
    /\ pre' = None
    /\ UNCHANGED <<top, Lists, Fixed, search>>

\* ch == curses.ascii.ESC
KeyEsc ==
    /\ ch' = "ESC"
    /\ item' = NoItem
    /\ pre' = None
    /\ UNCHANGED <<Nav, Lists, Fixed, search>>

Next ==
    \/ KeyUp
    \/ KeyDown
    \/ KeyLeft
    \/ KeyRight
    \/ KeyRestore
    \/ KeyFilter
    \/ KeyEnter
    \/ KeyEsc

Spec == Init /\ [][Next]_vars

\* only the scroll and page keys
NextNav ==
    \/ KeyUp
    \/ KeyDown
    \/ KeyLeft
    \/ KeyRight

SpecNav == InitNav /\ [][NextNav]_vars

\* only Page(Down)
NextPageDown == KeyRight
SpecPageDown == InitNav /\ [][NextPageDown]_vars

\* only Scroll(Down)
NextScrollDown == KeyDown
SpecScrollDown == InitNav /\ [][NextScrollDown]_vars

\* only the scroll keys, filter and restore
NextScrollFilter ==
    \/ KeyUp
    \/ KeyDown
    \/ KeyFilter
    \/ KeyRestore

SpecScrollFilter == Init /\ [][NextScrollFilter]_vars

\* only the scroll keys
NextScroll ==
    \/ KeyUp
    \/ KeyDown

SpecScroll == InitNav /\ [][NextScroll]_vars

\* the scroll and page keys, select and cancel
NextSelect ==
    \/ KeyUp
    \/ KeyDown
    \/ KeyLeft
    \/ KeyRight
    \/ KeyEnter
    \/ KeyEsc

SpecSelect == InitNav /\ [][NextSelect]_vars

\* construction on any terminal, then the scroll and page keys; main() calls
\* screen.run() only when Screen(lines) returned
NextTerminal == error = "none" /\ NextNav
SpecTerminal == InitTerminal /\ [][NextTerminal]_vars

\* ================================================================ claims

\* C1 (SpecNav): after any sequence of scroll and page keys on a non-empty
\* list, top + current < bottom: the cursor never points past the last item.
C1_CursorWithinList == bottom > 0 => top + current < bottom

\* C2 (SpecNav): after any sequence of scroll and page keys,
\* 0 <= current < max_lines; paging never leaves current at -1.
C2_CurrentInWindow == 0 <= current /\ current < max_lines

\* C3 (SpecNav): after any sequence of scroll and page keys,
\* 0 <= top <= bottom.
C3_TopWithinList == 0 <= top /\ top <= bottom

\* C4 (Spec): in every reachable state, also right after a filter or a
\* restore, bottom is the length of the active item list.
C4_BottomIsLength == bottom = Len(items)

\* C5 (Spec): a filter issued with no backup held, directly followed by a
\* restore, gives back the pre-filter item list and bottom and leaves no backup.
C5_RoundTrip ==
    (ch = "r" /\ pre # None /\ pre[1].backup = None)
        => /\ items = pre[1].items
           /\ bottom = pre[1].bottom
           /\ backup = None

\* the three-item list ax, b, ax filtered by "x" (which drops b) and restored
C5_Witness ==
    /\ ch = "r"
    /\ pre # None
    /\ pre[1].backup = None
    /\ search = <<"x">>
    /\ pre[1].items = << <<"a", "x">>, <<"b">>, <<"a", "x">> >>
    /\ items = pre[1].items
    /\ backup = None

\* C6 (Spec): in every reachable state either no backup is held and the
\* active list is the loaded list, or a backup is held and it is the loaded list.
C6_ExactlyOneUnfiltered ==
    \/ backup = None /\ items = lines
    \/ backup # None /\ backup[1] = lines

\* C7 (Spec): a filter issued while a backup is held leaves the backup as it
\* was and rebuilds the active list from that backup, so a restore directly
\* after one or more filters gives back the loaded list.
C7_FilterKeepsBackup ==
    /\ (ch = "f" /\ pre[1].backup # None)
           => /\ backup = pre[1].backup
              /\ items = Filtered(pre[1].backup[1], search)
    /\ (ch = "r" /\ pre # None) => items = lines

C9_PageMonotonic ==
    [][ IF top < page * max_lines
        THEN top' = top + max_lines
        ELSE top' = top /\ current' = current ]_vars

\* C10 (SpecScrollDown): on a non-empty list repeated Scroll(Down) first raises
\* current to min(C, L) - 1 with top at 0, then raises top by one per call with
\* current at C - 1, and stops changing at top = max(0, L - C),
\* current = min(C, L) - 1.
C10_ScrollDownConverges ==
    [][ bottom >= 1 =>
        LET lastRow == Min(max_lines, bottom) - 1
            lastTop == Max(0, bottom - max_lines)
        IN  /\ current < lastRow
                => top = 0 /\ top' = 0 /\ current' = current + 1
            /\ (current = lastRow /\ top < lastTop)
                => current = max_lines - 1 /\ top' = top + 1 /\ current' = current
            /\ (current = lastRow /\ top = lastTop)
                => top' = top /\ current' = current
            /\ current <= lastRow
            /\ top <= lastTop ]_vars

\* capacity 7, 10 items: the window has stopped at top = 3, current = 6
C10_Witness ==
    /\ ch = "KEY_DOWN"
    /\ max_lines = 7
    /\ bottom = 10
    /\ top = 3
    /\ current = 6

\* C11 (Spec): Scroll(Up) at top = 0, current = 0 changes no attribute of the
\* screen, and neither does Scroll(Down) with the window at the end of the list
\* and the cursor on the last item (top + max_lines = bottom and
\* current = max_lines - 1, or bottom = max_lines and current = bottom - 1);
\* the state being unchanged, the same holds for every repetition.
C11_BoundaryIdempotent ==
    [][ /\ (ch' = "KEY_UP" /\ top = 0 /\ current = 0) => UNCHANGED screen
        /\ ( /\ ch' = "KEY_DOWN"
             /\ \/ top + max_lines = bottom /\ current = max_lines - 1
                \/ bottom = max_lines /\ current = bottom - 1 )
               => UNCHANGED screen ]_vars

\* the window scrolled to the end of the list, cursor on the last item
C11_Witness ==
    /\ ch = "KEY_DOWN"
    /\ top > 0
    /\ top + max_lines = bottom
    /\ current = max_lines - 1

\* C12 (Spec): frame conditions per key: the scroll and page keys leave the
\* item list, the backup and the selection unchanged; select and cancel leave
\* top, current, bottom, page, the item list and the backup unchanged; filter
\* and restore leave the selection unchanged.
C12_Frames ==
    [][ /\ ch' \in {"KEY_UP", "KEY_DOWN", "KEY_LEFT", "KEY_RIGHT"}
            => UNCHANGED <<items, backup, item>>
        /\ ch' \in {"ENTER", "ESC"}
            => UNCHANGED <<top, current, bottom, page, items, backup>>
        /\ ch' \in {"f", "r"}
            => UNCHANGED item ]_vars

\* a cancel issued with the window scrolled, the cursor off row 0 and a filter
\* active
C12_Witness ==
    /\ ch = "ESC"
    /\ top > 0
    /\ current > 0
    /\ backup # None
    /\ items # backup[1]

\* C13 (Spec): a filter with the empty string gives an active list with the
\* same elements in the same order as the list before it, and holds a backup
\* afterwards.
C13_EmptyFilter ==
    (ch = "f" /\ search = <<>>)
        => /\ items = pre[1].items
           /\ backup # None

\* an empty filter on a list holding both kinds of record, with no backup before
C13_Witness ==
    /\ ch = "f"
    /\ search = <<>>
    /\ pre[1].backup = None
    /\ Len(items) >= 2
    /\ \E i, j \in 1..Len(items) : items[i] # items[j]

\* C14 (SpecTerminal): construction with max_lines <= 0 fails with
\* InvalidConfiguration; construction with max_lines >= 1 does not fail and
\* gives top = 0, current = 0, bottom = len(items), page = bottom // max_lines,
\* no backup and no selection.
C14_Construction ==
    ch = "none" =>
        IF max_lines <= 0
        THEN error = "InvalidConfiguration"
        ELSE /\ error = "none"
             /\ top = 0
             /\ current = 0
             /\ bottom = Len(items)
             /\ page = bottom \div max_lines
             /\ backup = None
             /\ item = NoItem

\* C15 (SpecScrollFilter): right after a filter or a restore that leaves a
\* non-empty active list, top + current < len(items) and
\* top <= max(0, len(items) - max_lines): the highlighted row is an item of the
\* new list.
C15_ValidAfterReplace ==
    (ch \in {"f", "r"} /\ Len(items) > 0)
        => /\ top + current < Len(items)
           /\ top <= Max(0, Len(items) - max_lines)

\* C16 (SpecNav): a Scroll(direction) call from a state with
\* 0 <= current < max_lines either changes top by direction with current
\* unchanged, or changes current by direction with top unchanged, or changes
\* neither; it never changes both.
C16_ScrollOneBranch ==
    [][ (ch' \in {"KEY_UP", "KEY_DOWN"} /\ 0 <= current /\ current < max_lines) =>
        LET direction == IF ch' = "KEY_UP" THEN UP ELSE DOWN
        IN  \/ top' = top + direction /\ current' = current
            \/ current' = current + direction /\ top' = top
            \/ top' = top /\ current' = current ]_vars

\* the window has been scrolled down with the cursor kept on the last row
C16_Witness ==
    /\ ch = "KEY_DOWN"
    /\ top > 0
    /\ current = max_lines - 1
    /\ top + max_lines < bottom

\* C17 (SpecScroll): with the scroll keys only, every reachable state has
\* 0 <= current < max_lines, 0 <= top <= max(0, bottom - max_lines) and, on a
\* non-empty list, top + current < bottom; and every index 0..bottom-1 is
\* reached as top + current: the constructed state is at index 0 and
\* Scroll(Down) raises top + current by exactly one from every state below the
\* last index.
C17_ScrollOnly ==
    /\ [] /\ 0 <= current /\ current < max_lines
          /\ 0 <= top /\ top <= Max(0, bottom - max_lines)
          /\ bottom > 0 => top + current < bottom
          /\ ch = "none" => top + current = 0
    /\ [][ (ch' = "KEY_DOWN" /\ top + current < bottom - 1)
               => top' + current' = top + current + 1 ]_vars

\* the last index of a list longer than the window has been reached
C17_Witness ==
    /\ ch = "KEY_DOWN"
    /\ top > 0
    /\ top + current = bottom - 1

\* C18 (SpecNav): from any state reached by the scroll and page keys, each
\* Scroll(Up) away from top = 0, current = 0 lowers top + current by exactly one
\* with neither top nor current going below 0, and Scroll(Up) at top = 0,
\* current = 0 changes neither: repeated Scroll(Up) arrives at 0, 0 within
\* top + current calls and stays there.
C18_ScrollUpConverges ==
    [][ ch' = "KEY_UP" =>
        IF top = 0 /\ current = 0
        THEN top' = 0 /\ current' = 0
        ELSE /\ top' + current' = top + current - 1
             /\ top' >= 0
             /\ current' >= 0 ]_vars

\* C19 (SpecSelect): after a select issued on a non-empty list in a state
\* reached by the scroll and page keys a selection is active (item differs from
\* -1), and an active selection stays active over every key but cancel.
C19_SelectionActive ==
    /\ [] ((ch = "ENTER" /\ bottom > 0) => item # NoItem)
    /\ [][ (item # NoItem /\ ch' # "ESC") => item' # NoItem ]_vars

====
